---- MODULE Spec2Model ----
(***************************************************************************)
(* Model of static/app.js, the scene.org music player front end: the       *)
(* player controller (loadCurrent, nextTrack, prevTrack, playTrack,        *)
(* togglePlay, toggleUpvote, the media element's listeners), the browse    *)
(* panel (openBrowse, browseBack, loadCategories, loadCollections,         *)
(* loadCollectionDetail, playSpecificTrack), the debounced search and the  *)
(* timers, run by one event loop: every action below is one task of that   *)
(* loop, run to completion (a handler up to its await, a continuation      *)
(* after a response, a timer callback, a media event).                     *)
(*                                                                         *)
(* Left out: pollStatus and the seek bar, which touch only the status dot  *)
(* and the playback position, and the 2500 ms timer that hides the toast.  *)
(* The media element is the environment: after load() it fires canplay or  *)
(* error, a playing track may end or fail, play() may be refused.          *)
(***************************************************************************)
EXTENDS Integers, Sequences, FiniteSets, Bags, TLC

VARIABLES
    state,      \* the `state` object: track, collection, categoryName, scope,
                \* isPlaying, isLoading, browseStack
    audio,      \* the media element: src, paused, phase, canplay listeners
    requests,   \* bag of service requests awaiting their response
    timers,     \* bag of pending setTimeout callbacks
    view,       \* what the page shows: title, collection line, heart, list
    ev,         \* the task the event loop ran last
    sent,       \* requests that task issued, in order
    notified,   \* messages that task passed to showToast, in order
    nav,        \* the navigation calls made since the panel was opened
    inputs      \* how many user inputs and faults there have been

vars == <<state, audio, requests, timers, view, ev, sent, notified, nav, inputs>>

----------------------------------------------------------------------------
(* Bounds of the exploration *)

MaxInputs == 3       \* player inputs and faults in a run
MaxClicks == 4       \* browse panel inputs and faults in a run
MaxLen == 2          \* characters in the search box

(* Delays the program passes to setTimeout, in milliseconds *)
RetryDelay == 3000
SkipDelay == 1000
SearchDelay == 300
FirstProbe == 5000
SecondProbe == 15000

----------------------------------------------------------------------------
(* The catalogue the service answers from *)

Tracks == {1, 2}
Collections == {1, 2}
Categories == {"A"}
Scopes == {"track", "collection"}
Chars == {" ", "x"}

CollOf(t) == t
CatOf(c) == "A"
CollName(c) == "B"

NoTrack == [id |-> 0, upvoted |-> FALSE, shared |-> FALSE]

\* A track object parsed from a response; `shared` tells that the object is
\* also the one a rendered browse item holds (playSpecificTrack stores the
\* item's own object in state.track).
Track(t, u) == [id |-> t, upvoted |-> u, shared |-> FALSE]

\* PlayerSnapshot payloads of /player/current, /player/next, /player/prev
Snapshots ==
    {[track |-> NoTrack, collection |-> 0, category_name |-> ""]}
    \cup {[track |-> Track(t, u), collection |-> CollOf(t),
            category_name |-> CatOf(CollOf(t))] : t \in Tracks, u \in BOOLEAN}

Texts == UNION {[1..n -> Chars] : n \in 0..MaxLen}

RECURSIVE trimStart(_)
trimStart(s) == IF s # <<>> /\ Head(s) = " " THEN trimStart(Tail(s)) ELSE s

RECURSIVE trimEnd(_)
trimEnd(s) ==
    IF s # <<>> /\ s[Len(s)] = " " THEN trimEnd(SubSeq(s, 1, Len(s) - 1)) ELSE s

trim(s) == trimEnd(trimStart(s))

----------------------------------------------------------------------------
(* Requests and timers *)

Req(op, s, id, q) == [op |-> op, s |-> s, id |-> id, q |-> q]
Timer(kind, delay, q) == [kind |-> kind, delay |-> delay, age |-> 0, q |-> q]

One(x) == SetToBag({x})

(* The world a task runs in: the variables as one record, so that a handler *)
(* is a function from world to world and handlers compose as the code calls *)
(* them.                                                                    *)
World ==
    [state |-> state, audio |-> audio, requests |-> requests, timers |-> timers,
     view |-> view, ev |-> ev, sent |-> sent, notified |-> notified, nav |-> nav]

\* api(): the request leaves; the caller is suspended until the response
api(w, r) == [w EXCEPT !.requests = @ (+) One(r), !.sent = Append(@, r)]

setTimeout(w, t) == [w EXCEPT !.timers = @ (+) One(t)]

showToast(w, msg) == [w EXCEPT !.notified = Append(@, msg), !.view.toast = msg]

setLoading(w, loading) == [w EXCEPT !.state.isLoading = loading]

updateHeart(w, active) == [w EXCEPT !.view.heart = active]

----------------------------------------------------------------------------
(* Player logic *)

\* Texts the page can show in #trackTitle and #collectionName
NoTracksAvailable == -1
WaitingForCrawl == -1
Dashes == -2

applyPlayerState(w, data) ==
    IF data.track = NoTrack
    THEN [w EXCEPT !.view.trackTitle = NoTracksAvailable,
                   !.view.collectionName = WaitingForCrawl]
    ELSE updateHeart(
            [w EXCEPT !.state.track = data.track,
                      !.state.collection = data.collection,
                      !.state.categoryName = data.category_name,
                      !.view.trackTitle = data.track.id,
                      !.view.collectionName =
                          IF data.collection # 0 THEN data.collection ELSE Dashes],
            data.track.upvoted)

\* audio.src = url; audio.load(): the element drops what it had and starts
\* fetching; it will fire canplay or error for this load
load(a, t) == [a EXCEPT !.src = t, !.phase = "loading", !.paused = TRUE]

addCanPlay(a) == [a EXCEPT !.canplay = @ + 1]

playTrack(w) ==
    IF w.state.track = NoTrack THEN w
    ELSE [setLoading(w, TRUE) EXCEPT !.audio = addCanPlay(load(@, w.state.track.id))]

\* The one-shot listener playTrack and playSpecificTrack bind; `blocked`
\* tells whether the browser refuses audio.play() (autoplay policy)
onCanPlay(w, blocked) ==
    [setLoading(w, FALSE) EXCEPT !.audio.paused = blocked,
                                 !.state.isPlaying = TRUE,
                                 !.audio.canplay = @ - 1]

RECURSIVE fireCanPlay(_, _, _)
fireCanPlay(w, n, blocked) ==
    IF n = 0 THEN w ELSE fireCanPlay(onCanPlay(w, blocked), n - 1, blocked)

\* nextTrack without its first line
nextTrackUnguarded(w) == api(setLoading(w, TRUE), Req("next", w.state.scope, 0, <<>>))

nextTrack(w) ==
    IF w.state.isLoading THEN w
    ELSE api(setLoading(w, TRUE), Req("next", w.state.scope, 0, <<>>))

nextTrackOk(w, data) == playTrack(applyPlayerState(w, data))

nextTrackFail(w) == setLoading(showToast(w, "Failed to load next track"), FALSE)

prevTrack(w) ==
    IF w.state.isLoading THEN w
    ELSE api(setLoading(w, TRUE), Req("prev", "", 0, <<>>))

prevTrackOk(w, data) == playTrack(applyPlayerState(w, data))

\* a catch block that reloads the track it still has
prevTrackFailReloads(w) == playTrack(setLoading(showToast(w, "No previous track"), FALSE))

prevTrackFail(w) == setLoading(showToast(w, "No previous track"), FALSE)

loadCurrent(w) == api(w, Req("current", "", 0, <<>>))

loadCurrentOk(w, data) == applyPlayerState(w, data)

\* a catch block that re-arms the retry twice
loadCurrentFailTwice(w) ==
    setTimeout(setTimeout(w, Timer("retry", RetryDelay, <<>>)),
               Timer("retry", RetryDelay, <<>>))

loadCurrentFail(w) == setTimeout(w, Timer("retry", RetryDelay, <<>>))

\* audio.play() from a user gesture: resumes, or restarts a track that ended
play(a) ==
    IF a.phase = "failed" THEN a
    ELSE [a EXCEPT !.paused = FALSE,
                   !.phase = IF @ = "ended" THEN "ready" ELSE @]

togglePlay(w) ==
    IF w.state.track = NoTrack THEN nextTrack(w)
    ELSE IF w.audio.paused
         THEN LET w1 == IF w.audio.src = 0 THEN playTrack(w)
                        ELSE [w EXCEPT !.audio = play(@)]
              IN [w1 EXCEPT !.state.isPlaying = TRUE]
         ELSE [w EXCEPT !.audio.paused = TRUE, !.state.isPlaying = FALSE]

\* an 'ended' listener that only clears the flag
onEndedNoAdvance(w) == [w EXCEPT !.state.isPlaying = FALSE]

\* audio 'ended' listener
onEnded(w) == nextTrack([w EXCEPT !.state.isPlaying = FALSE])

\* an 'error' listener that skips without waiting
onErrorSkipsAtOnce(w) ==
    setTimeout(showToast(setLoading(w, FALSE), "Playback error, skipping..."),
               Timer("skip", 0, <<>>))

\* audio 'error' listener
onError(w) ==
    setTimeout(showToast(setLoading(w, FALSE), "Playback error, skipping..."),
               Timer("skip", SkipDelay, <<>>))

\* toggleUpvote flipping the flag before the service has answered
toggleUpvoteOptimistic(w) ==
    IF w.state.track = NoTrack THEN w
    ELSE api([w EXCEPT !.state.track.upvoted = ~@],
             Req("upvote", IF w.state.track.upvoted THEN "DELETE" ELSE "POST",
                 w.state.track.id, <<>>))

toggleUpvote(w) ==
    IF w.state.track = NoTrack THEN w
    ELSE api(w, Req("upvote", IF w.state.track.upvoted THEN "DELETE" ELSE "POST",
                    w.state.track.id, <<>>))

upvoteOk(w, method) ==
    LET v == (method = "POST")
        w1 == [w EXCEPT !.state.track.upvoted = v,
                        !.view.list.items =
                            IF w.state.track.shared
                            THEN {IF i.id = w.state.track.id
                                  THEN [i EXCEPT !.upvoted = v] ELSE i : i \in @}
                            ELSE @]
    IN updateHeart(showToast(w1, IF v THEN "Saved to library"
                                      ELSE "Removed from library"), v)

upvoteFail(w) == showToast(w, "Upvote failed")

----------------------------------------------------------------------------
(* Browse panel *)

Frame(type, name, id) == [type |-> type, name |-> name, id |-> id]
Item(name, id, upvoted) == [name |-> name, id |-> id, upvoted |-> upvoted]
List(kind, s, id, items) == [kind |-> kind, s |-> s, id |-> id, items |-> items]

Loading == List("loading", "", 0, {})
Failed == List("failed", "", 0, {})

\* list.innerHTML = ...: the items shown before are gone, and with them the
\* page's other reference to a track object handed to playSpecificTrack
render(w, l) == [w EXCEPT !.view.list = l, !.state.track.shared = FALSE]

loadCategories(w) ==
    api(render([w EXCEPT !.view.back = FALSE, !.view.search = <<>>], Loading),
        Req("categories", "", 0, <<>>))

categoriesOk(w, cats) ==
    render(w, List("categories", "", 0, {Item(c, 0, FALSE) : c \in cats}))

categoriesFail(w) == render(w, Failed)

loadCollections(w, category, query) ==
    api(render([w EXCEPT !.view.back = TRUE], Loading),
        Req("collections", category, 0, query))

collectionsOk(w, category, collections) ==
    IF collections = {} THEN render(w, List("empty", category, 0, {}))
    ELSE render(w, List("collections", category, 0,
                        {Item(CollName(c), c, FALSE) : c \in collections}))

collectionsFail(w) == render(w, Failed)

loadCollectionDetail(w, id, name) ==
    api(render([w EXCEPT !.view.back = TRUE], Loading), Req("detail", name, id, <<>>))

detailOk(w, id, tracks) == render(w, List("tracks", "", id, tracks))

\* a catch block that also leaves the level that failed to load
detailFailPops(w) ==
    render([w EXCEPT !.state.browseStack = SubSeq(@, 1, Len(@) - 1)], Failed)

detailFail(w) == render(w, Failed)

openBrowse(w) ==
    loadCategories([w EXCEPT !.view.open = TRUE, !.state.browseStack = <<>>])

closeBrowse(w) == [w EXCEPT !.view.open = FALSE]

pop(stack) == IF stack = <<>> THEN stack ELSE SubSeq(stack, 1, Len(stack) - 1)

\* a back() that returns at once when there is nothing to pop
browseBackQuiet(w) ==
    LET w1 == [w EXCEPT !.state.browseStack = pop(@)]
        stack == w1.state.browseStack
        prev == stack[Len(stack)]
    IN IF w.state.browseStack = <<>> THEN w
       ELSE IF Len(stack) = 0 THEN loadCategories(w1)
       ELSE IF prev.type = "category" THEN loadCollections(w1, prev.name, <<>>)
       ELSE IF prev.type = "collection" THEN loadCollectionDetail(w1, prev.id, prev.name)
       ELSE w1

browseBack(w) ==
    LET w1 == [w EXCEPT !.state.browseStack = pop(@)]
        stack == w1.state.browseStack
        prev == stack[Len(stack)]
    IN IF Len(stack) = 0 THEN loadCategories(w1)
       ELSE IF prev.type = "category" THEN loadCollections(w1, prev.name, <<>>)
       ELSE IF prev.type = "collection" THEN loadCollectionDetail(w1, prev.id, prev.name)
       ELSE w1

\* click listener of a category item
clickCategory(w, cat) ==
    loadCollections([w EXCEPT !.state.browseStack = Append(@, Frame("category", cat.name, 0))],
                    cat.name, <<>>)

\* click listener of a collection item
clickCollection(w, col) ==
    loadCollectionDetail(
        [w EXCEPT !.state.browseStack = Append(@, Frame("collection", col.name, col.id))],
        col.id, col.name)

playSpecificTrack(w, track) ==
    LET w1 == updateHeart([w EXCEPT !.state.track = [id |-> track.id,
                                                      upvoted |-> track.upvoted,
                                                      shared |-> TRUE],
                                    !.view.trackTitle = track.id],
                          track.upvoted)
    IN [setLoading(w1, TRUE) EXCEPT !.audio = addCanPlay(load(@, track.id))]

\* click listener of a track item
clickTrack(w, track) == closeBrowse(playSpecificTrack(w, track))

(* Search box: searchTimeout is the handle of the timer the last keystroke *)
(* set, the youngest search timer pending                                  *)
SearchTimers(w) == {t \in DOMAIN w.timers : t.kind = "search"}

\* a keystroke that leaves the pending timer alone
clearTimeoutNothing(w) == w

clearTimeout(w) ==
    IF SearchTimers(w) = {} THEN w
    ELSE LET t == CHOOSE t \in SearchTimers(w) :
                      \A u \in SearchTimers(w) : t.age <= u.age
         IN [w EXCEPT !.timers = @ (-) One(t)]

\* `value` is what the box holds once the keystroke is in
onSearchInput(w, value) ==
    setTimeout(clearTimeout([w EXCEPT !.view.search = value]),
               Timer("search", SearchDelay, trim(value)))

\* the callback of the search timer
searchCallback(w, q) ==
    LET stack == w.state.browseStack
    IN IF Len(stack) > 0 /\ stack[Len(stack)].type = "category"
       THEN loadCollections(w, stack[Len(stack)].name, q)
       ELSE w

\* the callback of the two timers set at start-up
probeCallback(w) == IF w.state.track = NoTrack THEN loadCurrent(w) ELSE w

----------------------------------------------------------------------------
(* The event loop *)

\* A task starts with nothing sent and nothing notified yet
Begin(label) == [World EXCEPT !.ev = label, !.sent = <<>>, !.notified = <<>>]

Commit(w) ==
    /\ state' = w.state
    /\ audio' = w.audio
    /\ requests' = w.requests
    /\ timers' = w.timers
    /\ view' = w.view
    /\ ev' = w.ev
    /\ sent' = w.sent
    /\ notified' = w.notified
    /\ nav' = w.nav

\* A task the environment starts on its own in the player: a click, a media
\* error, the end of a track, a request that fails
Input(w) == inputs < MaxInputs /\ inputs' = inputs + 1 /\ Commit(w)

\* The same in the browse panel: a click, a keystroke, a load that fails
Click(w) == inputs < MaxClicks /\ inputs' = inputs + 1 /\ Commit(w)

\* A task that follows from an earlier one: a response, a timer, canplay
Follow(w) == inputs' = inputs /\ Commit(w)

\* The response of request r arrives: r is no longer in flight
Answered(label, r) == [Begin(label) EXCEPT !.requests = @ (-) One(r)]

\* Timer t is due and its callback is run
Due(t) == t \in DOMAIN timers /\ t.age >= t.delay
Fired(label, t) == [Begin(label) EXCEPT !.timers = @ (-) One(t)]

Pending(op) == {r \in DOMAIN requests : r.op = op}

Init ==
    \* loadCurrent() and the two probes of the script's last lines
    /\ state = [track |-> NoTrack, collection |-> 0, categoryName |-> "",
                scope |-> "track", isPlaying |-> FALSE, isLoading |-> FALSE,
                browseStack |-> <<>>]
    /\ audio = [src |-> 0, paused |-> TRUE, phase |-> "empty", canplay |-> 0]
    /\ requests = One(Req("current", "", 0, <<>>))
    /\ timers = One(Timer("probe", FirstProbe, <<>>)) (+) One(Timer("probe", SecondProbe, <<>>))
    /\ view = [trackTitle |-> 0, collectionName |-> 0, heart |-> FALSE, toast |-> "",
               open |-> FALSE, back |-> FALSE, search |-> <<>>, list |-> List("none", "", 0, {})]
    /\ ev = "init"
    /\ sent = <<Req("current", "", 0, <<>>)>>
    /\ notified = <<>>
    /\ nav = <<>>
    /\ inputs = 0

(* User input *)
ClickNext == Input(nextTrack(Begin("nextTrack")))

ClickPrev == Input(prevTrack(Begin("prevTrack")))

ClickPlay == Input(togglePlay(Begin("togglePlay")))

ClickHeart == Input(toggleUpvote(Begin("toggleUpvote")))

ClickScope == \E s \in Scopes : Input([Begin("scope") EXCEPT !.state.scope = s])

ClickMenu == Click([openBrowse(Begin("openBrowse")) EXCEPT !.nav = <<>>])

ClickClose == view.open /\ Click(closeBrowse(Begin("closeBrowse")))

ClickBack ==
    /\ view.open /\ view.back
    /\ Click([browseBack(Begin("browseBack")) EXCEPT !.nav = Append(@, "back")])

\* browseBack called as the operation it is, whatever the panel shows: the
\* listener is bound to #browseBack at start-up for good, and only the
\* button's style (set by the load functions) keeps clicks from it.
CallBack ==
    Click([browseBack(Begin("browseBack")) EXCEPT !.nav = Append(@, "back")])

ClickCategory ==
    /\ view.open /\ view.list.kind = "categories"
    /\ \E cat \in view.list.items :
          Click([clickCategory(Begin("clickCategory"), cat) EXCEPT
                     !.nav = Append(@, "category")])

ClickCollection ==
    /\ view.open /\ view.list.kind = "collections"
    /\ \E col \in view.list.items :
          Click([clickCollection(Begin("clickCollection"), col) EXCEPT
                     !.nav = Append(@, "collection")])

ClickTrack ==
    /\ view.open /\ view.list.kind = "tracks"
    /\ \E track \in view.list.items : Click(clickTrack(Begin("clickTrack"), track))

SearchInput ==
    /\ view.open
    /\ \E value \in Texts \ {view.search} : Click(onSearchInput(Begin("input"), value))

(* Media element events *)
AudioCanPlay ==
    /\ audio.phase = "loading"
    /\ \E blocked \in BOOLEAN :
          Follow(fireCanPlay([Begin("canplay") EXCEPT !.audio.phase = "ready"],
                             audio.canplay, blocked))

AudioError ==
    /\ audio.phase \in {"loading", "ready"}
    /\ Input(onError([Begin("error") EXCEPT !.audio.phase = "failed"]))

AudioEnded ==
    /\ audio.phase = "ready" /\ ~audio.paused
    /\ Input(onEnded([Begin("ended") EXCEPT !.audio.phase = "ended",
                                             !.audio.paused = TRUE]))

(* Service responses *)
CurrentOk ==
    \E r \in Pending("current"), data \in Snapshots :
        Follow(loadCurrentOk(Answered("currentOk", r), data))

CurrentFail ==
    \E r \in Pending("current") : Input(loadCurrentFail(Answered("currentFail", r)))

NextOk ==
    \E r \in Pending("next"), data \in Snapshots :
        Follow(nextTrackOk(Answered("nextOk", r), data))

NextFail == \E r \in Pending("next") : Input(nextTrackFail(Answered("nextFail", r)))

PrevOk ==
    \E r \in Pending("prev"), data \in Snapshots :
        Follow(prevTrackOk(Answered("prevOk", r), data))

PrevFail == \E r \in Pending("prev") : Input(prevTrackFail(Answered("prevFail", r)))

UpvoteOk == \E r \in Pending("upvote") : Follow(upvoteOk(Answered("upvoteOk", r), r.s))

UpvoteFail == \E r \in Pending("upvote") : Input(upvoteFail(Answered("upvoteFail", r)))

CategoriesOk ==
    \E r \in Pending("categories"), cats \in SUBSET Categories :
        Follow(categoriesOk(Answered("categoriesOk", r), cats))

CategoriesFail ==
    \E r \in Pending("categories") : Click(categoriesFail(Answered("categoriesFail", r)))

CollectionsOk ==
    \E r \in Pending("collections") :
        \E cols \in SUBSET {c \in Collections : CatOf(c) = r.s} :
            Follow(collectionsOk(Answered("collectionsOk", r), r.s, cols))

CollectionsFail ==
    \E r \in Pending("collections") : Click(collectionsFail(Answered("collectionsFail", r)))

DetailOk ==
    \E r \in Pending("detail") :
        \E ts \in SUBSET {t \in Tracks : CollOf(t) = r.id} : \E up \in SUBSET ts :
            Follow(detailOk(Answered("detailOk", r), r.id,
                            {Item("", t, t \in up) : t \in ts}))

DetailFail == \E r \in Pending("detail") : Click(detailFail(Answered("detailFail", r)))

(* Timers *)
RetryFires ==
    \E t \in DOMAIN timers :
        Due(t) /\ t.kind = "retry" /\ Follow(loadCurrent(Fired("retry", t)))

SkipFires ==
    \E t \in DOMAIN timers :
        Due(t) /\ t.kind = "skip" /\ Follow(nextTrack(Fired("skip", t)))

SearchFires ==
    \E t \in DOMAIN timers :
        Due(t) /\ t.kind = "search" /\ Follow(searchCallback(Fired("search", t), t.q))

ProbeFires ==
    \E t \in DOMAIN timers :
        Due(t) /\ t.kind = "probe" /\ Follow(probeCallback(Fired("probe", t)))

\* Time passes up to the next deadline; a due timer runs before time goes on
Remaining == {t.delay - t.age : t \in DOMAIN timers}

Aged(t, d) == [t EXCEPT !.age = @ + d]

Tick ==
    /\ timers # EmptyBag
    /\ \E d \in Remaining :
          /\ d > 0
          /\ \A e \in Remaining : d <= e
          /\ Follow([Begin("tick") EXCEPT
                 !.timers = [u \in {Aged(t, d) : t \in DOMAIN timers} |->
                               timers[[u EXCEPT !.age = @ - d]]]])

\* Start-up: loadCurrent, its retries and the two probes
Startup == CurrentOk \/ CurrentFail \/ RetryFires \/ ProbeFires

\* Advancing: the next button, its responses, the media load that follows
Advance == ClickNext \/ NextOk \/ NextFail \/ AudioCanPlay \/ AudioError \/ SkipFires

\* The player: transport buttons, scope selector, the media element
Player == Advance \/ ClickPrev \/ ClickPlay \/ ClickScope \/ AudioEnded \/ PrevOk \/ PrevFail

\* The heart button
Upvote == ClickHeart \/ UpvoteOk \/ UpvoteFail

\* The browse panel: navigation and search. (SpecBrowse below is the panel
\* on its own, while /api/player/current is still unanswered.)
Browse ==
    \/ ClickMenu \/ ClickClose \/ ClickBack
    \/ ClickCategory \/ ClickCollection \/ SearchInput
    \/ CategoriesOk \/ CategoriesFail \/ CollectionsOk \/ CollectionsFail
    \/ DetailOk \/ DetailFail
    \/ SearchFires

Next == Startup \/ Player \/ Tick

NextBrowse == ProbeFires \/ Browse \/ Tick

NextUpvote == Startup \/ Advance \/ Upvote \/ Tick

NextAll == Startup \/ Player \/ Upvote \/ Browse \/ ClickTrack \/ Tick

Spec == Init /\ [][Next]_vars

SpecBrowse == Init /\ [][NextBrowse]_vars

SpecUpvote == Init /\ [][NextUpvote]_vars

SpecAll == Init /\ [][NextAll]_vars

\* Choosing a track in the panel, with the start-up snapshot and the media
\* element's answer to the load
NextSelect == CurrentOk \/ ProbeFires \/ Browse \/ ClickTrack \/ AudioCanPlay \/ Tick

SpecSelect == Init /\ [][NextSelect]_vars

\* The panel with back() callable in every state
NextBack == ProbeFires \/ Browse \/ CallBack \/ Tick

SpecBack == Init /\ [][NextBack]_vars

\* The service answers, the media element reports on every load, time goes on
Fairness ==
    /\ WF_vars(CurrentOk) /\ WF_vars(NextOk) /\ WF_vars(PrevOk)
    /\ WF_vars(AudioCanPlay)
    /\ WF_vars(RetryFires) /\ WF_vars(SkipFires) /\ WF_vars(ProbeFires) /\ WF_vars(Tick)

FairSpec == Spec /\ Fairness

----------------------------------------------------------------------------
(* Properties *)

InFlight(ops) ==
    BagCardinality([r \in {x \in DOMAIN requests : x.op \in ops} |-> requests[r]])

Transitions == InFlight({"next", "prev"})

\* C1: at most one playback-transition request (next or prev) is outstanding
\* in every reachable state
AtMostOneTransition == Transitions <= 1

\* C2: a nextTrack or prevTrack call made while isLoading is true sends no
\* request, changes nothing of the player state and leaves nothing behind
\* (no request, no timer) that would run it later
DroppedWhileLoading ==
    [][(ev' \in {"nextTrack", "prevTrack"} /\ state.isLoading) =>
          /\ sent' = <<>>
          /\ UNCHANGED <<state, audio, requests, timers, view, notified>>]_vars

DroppedCall ==
    /\ ev \in {"nextTrack", "prevTrack"} /\ sent = <<>>
    /\ state.isLoading /\ Transitions = 1

\* C3: isLoading is true for as long as a next/prev request is outstanding
\* (the first part of the span the claim names)
LoadingWhileInFlight == Transitions > 0 => state.isLoading

\* C4: whenever isLoading is true it eventually becomes false again
LoadingClears == state.isLoading ~> ~state.isLoading

NextRequest(scope) == Req("next", scope, 0, <<>>)

\* C5 as claimed: every 'ended' event sends exactly one next request with the
\* scope selected at that moment and clears isPlaying, in whatever state of
\* the player it fires
EndedAlwaysAdvances ==
    [][ev' = "ended" =>
          sent' = <<NextRequest(state.scope)>> /\ ~state'.isPlaying]_vars

\* C5 as amended: every 'ended' event clears isPlaying and calls nextTrack
\* once; the call sends exactly one next request with the scope selected at
\* that moment when isLoading is false, and none when isLoading is true
EndedAdvancesUnlessLoading ==
    [][ev' = "ended" =>
          /\ ~state'.isPlaying
          /\ state'.scope = state.scope
          /\ sent' = IF state.isLoading THEN <<>> ELSE <<NextRequest(state.scope)>>
          /\ requests' = IF state.isLoading THEN requests
                         ELSE requests (+) One(NextRequest(state.scope))]_vars

EndedWhileLoading == ev = "ended" /\ sent = <<>> /\ state.isLoading /\ ~state.isPlaying

SkipTimers == BagCardinality([t \in {x \in DOMAIN timers : x.kind = "skip"} |-> timers[t]])

\* C6: a media 'error' event clears isLoading, notifies once and sets one
\* timer for nextTrack; skip timers are set by nothing else; the timer's
\* callback runs once, when SkipDelay has passed and not before, and sends
\* at most one next request
ErrorSkipsOnce ==
    [][/\ ev' = "error" =>
              /\ ~state'.isLoading
              /\ Len(notified') = 1
              /\ sent' = <<>>
              /\ timers' = timers (+) One(Timer("skip", SkipDelay, <<>>))
       /\ SkipTimers' > SkipTimers => ev' = "error" /\ SkipTimers' = SkipTimers + 1
       /\ ev' = "skip" =>
              /\ \E t \in DOMAIN timers :
                    /\ t.kind = "skip" /\ t.age >= SkipDelay
                    /\ timers' = timers (-) One(t)
              /\ sent' = IF state.isLoading THEN <<>> ELSE <<NextRequest(state.scope)>>
      ]_vars

SkippedAfterError ==
    ev = "skip" /\ sent = <<NextRequest(state.scope)>> /\ audio.phase = "failed"

\* C9: toggleUpvote sends POST for a track that is not upvoted and DELETE for
\* one that is, and changes nothing yet; the flag of the current track
\* changes only when the service has confirmed (or the track is replaced by a
\* snapshot); a failed call leaves the track as it was and notifies once
UpvoteAfterConfirmation ==
    [][/\ (ev' = "toggleUpvote" /\ state.track # NoTrack) =>
              /\ sent' = <<Req("upvote",
                               IF state.track.upvoted THEN "DELETE" ELSE "POST",
                               state.track.id, <<>>)>>
              /\ state' = state /\ notified' = <<>>
       /\ ev' = "upvoteFail" =>
              state' = state /\ notified' = <<"Upvote failed">>
       /\ state'.track.upvoted # state.track.upvoted =>
              ev' \in {"upvoteOk", "currentOk", "nextOk", "prevOk", "clickTrack"}
       /\ ev' = "upvoteOk" =>
              \E r \in Pending("upvote") :
                  /\ requests' = requests (-) One(r)
                  /\ state'.track.upvoted = (r.s = "POST")
      ]_vars

UpvoteSaved ==
    /\ ev = "upvoteOk" /\ state.track.upvoted
    /\ notified = <<"Saved to library">>

\* C10: when /player/current succeeds without a track, loadCurrent shows
\* the placeholder, leaves state.track as it was, notifies nobody and sets
\* exactly one timer that retries loadCurrent after RetryDelay
NoTrackSchedulesRetry ==
    [][(ev' = "currentOk" /\ view'.trackTitle = NoTracksAvailable) =>
          /\ view'.collectionName = WaitingForCrawl
          /\ state' = state
          /\ notified' = <<>>
          /\ timers' = timers (+) One(Timer("retry", RetryDelay, <<>>))]_vars

SearchTimerBag == [t \in {x \in DOMAIN timers : x.kind = "search"} |-> timers[t]]

Top == state.browseStack[Len(state.browseStack)]

\* C7: at most one search timer is pending; a keystroke replaces it by one
\* that holds the trimmed content of the box and starts at age 0; its
\* callback runs when SearchDelay has passed since that keystroke and not
\* before, sends exactly one collections request for the category on top of
\* the stack with that text (none when the top is not a category), and
\* leaves the stack alone
DebouncedSearch ==
    [][/\ BagCardinality(SearchTimerBag') <= 1
       /\ ev' = "input" =>
              /\ timers' = (timers (-) SearchTimerBag)
                             (+) One(Timer("search", SearchDelay, trim(view'.search)))
              /\ sent' = <<>>
              /\ state' = state
       /\ ev' = "search" =>
              /\ \E t \in DOMAIN timers :
                    /\ t.kind = "search" /\ t.age >= SearchDelay
                    /\ timers' = timers (-) One(t)
                    /\ sent' = IF state.browseStack # <<>> /\ Top.type = "category"
                               THEN <<Req("collections", Top.name, 0, t.q)>>
                               ELSE <<>>
              /\ state' = state
      ]_vars

SearchSent ==
    /\ ev = "search" /\ sent = <<Req("collections", "A", 0, <<"x">>)>>
    /\ state.browseStack = <<Frame("category", "A", 0)>>
    /\ view.search # <<"x">>

BrowseInFlight == InFlight({"categories", "collections", "detail"})

RoundTrip == nav = <<"category", "collection", "back">>

\* C8: after push(category A), push(collection B), back(), the
\* stack is [category A] and, once every load has been answered (none
\* failing), the list shown is A's collection list, in whatever order the
\* answers came
BackRedisplaysCollections ==
    (RoundTrip /\ BrowseInFlight = 0 /\ view.list.kind # "failed") =>
        /\ Len(state.browseStack) = 1 /\ Top.type = "category"
        /\ view.list.kind \in {"collections", "empty"}
        /\ view.list.s = Top.name

TimersOf(kind) ==
    BagCardinality([t \in {x \in DOMAIN timers : x.kind = kind} |-> timers[t]])

\* The loadCurrent calls that are under way or still to come: a request in
\* flight, a retry waiting for its time, a probe that has not fired.
CurrentChains == InFlight({"current"}) + TimersOf("retry") + TimersOf("probe")

\* C11: a failed loadCurrent request schedules exactly one retry, 3 time
\* units later, notifies nobody and leaves the player state (track,
\* collection, isLoading, isPlaying and the rest) as it was; the retries
\* waiting never outnumber the three loadCurrent calls of start-up (the
\* initial one and the two probes), however many requests fail
RetryOncePerFailure ==
    [][/\ ev' = "currentFail" =>
              /\ timers' = timers (+) One(Timer("retry", RetryDelay, <<>>))
              /\ notified' = <<>> /\ sent' = <<>>
              /\ UNCHANGED <<state, audio, view>>
       /\ CurrentChains' <= CurrentChains
       /\ TimersOf("retry")' <= 3
      ]_vars

TwoRetriesWaiting ==
    /\ ev = "currentFail" /\ TimersOf("retry") = 2
    /\ state.track = NoTrack /\ notified = <<>>

StackTypes == [i \in DOMAIN state.browseStack |-> state.browseStack[i].type]

\* C12: the browse stack is always [], [category] or [category, collection]:
\* never deeper than two frames, never two frames of one level, whatever
\* the order of clicks and of (late) answers
StackShape == StackTypes \in {<<>>, <<"category">>, <<"category", "collection">>}

\* C13: state.track, state.collection and state.categoryName come from one
\* snapshot: the collection and the category held are those of the current
\* track (a snapshot may carry no collection), after any sequence of
\* loadCurrent, next, prev and track selections in the panel
SameSnapshot ==
    state.track # NoTrack =>
        /\ state.collection \in {0, CollOf(state.track.id)}
        /\ state.categoryName \in {"", CatOf(CollOf(state.track.id))}

LoadFailures == {"categoriesFail", "collectionsFail", "detailFail"}

\* C14: when a category, collection-list or collection-detail load fails,
\* the list shows 'Failed to load' (not the indicator of an empty result)
\* and the failure leaves the browse stack, like the rest of the state, as
\* it found it: no frame is popped or pushed, no load is issued
FailedLoadKeepsStack ==
    [][ev' \in LoadFailures =>
          /\ view'.list = Failed /\ view'.list.kind # "empty"
          /\ state'.browseStack = state.browseStack
          /\ sent' = <<>>
      ]_vars

DetailFailed ==
    /\ ev = "detailFail" /\ view.list = Failed
    /\ StackTypes = <<"category", "collection">>

\* C15: when a next or prev request fails, the user is notified exactly
\* once, isLoading ends false, and track, collection, categoryName and the
\* media element (its source included) are what they were: nothing is
\* reloaded, no request is sent
FailedTransitionKeepsTrack ==
    [][ev' \in {"nextFail", "prevFail"} =>
          /\ Len(notified') = 1
          /\ ~state'.isLoading
          /\ state' = [state EXCEPT !.isLoading = FALSE]
          /\ audio' = audio
          /\ sent' = <<>> /\ timers' = timers
      ]_vars

PrevFailedWhilePlaying ==
    /\ ev = "prevFail" /\ notified = <<"No previous track">>
    /\ state.track # NoTrack /\ audio.src = state.track.id /\ ~state.isLoading

BackAtRoot == ev' = "browseBack" /\ state.browseStack = <<>>

\* C16: back() on an empty browse stack is a no-op: the stack stays empty,
\* nothing of the navigator's state or display changes and no load is issued
BackAtRootIsNoOp ==
    [][BackAtRoot =>
          /\ state' = state /\ view' = view
          /\ requests' = requests /\ sent' = <<>>
      ]_vars

\* C16, amended: back() on an empty browse stack leaves the stack empty (and
\* the rest of state as it was) but loads the category list again: one
\* GET /categories is sent, the list shows 'Loading...', the back button is
\* hidden and the search box is cleared; so does every further call
BackAtRootReloads ==
    [][BackAtRoot =>
          /\ state' = state /\ state'.browseStack = <<>>
          /\ sent' = <<Req("categories", "", 0, <<>>)>>
          /\ view' = [view EXCEPT !.list = Loading, !.back = FALSE, !.search = <<>>]
      ]_vars

BackTwiceAtRoot ==
    /\ ev = "browseBack" /\ nav = <<"back", "back">>
    /\ state.browseStack = <<>> /\ InFlight({"categories"}) >= 2

\* C17: at most one canplay listener is bound to the media element in every
\* reachable state, also after a load that ended in an error event and
\* after a second load started before the first became playable
OneCanPlayListener == audio.canplay <= 1

\* C18: whenever no browse load is outstanding and the last one to be
\* answered succeeded, the list shown is the content of the top of the
\* stack: the categories for [], the collections of the category on top,
\* the tracks of the collection on top, whatever the order of the answers
ListShowsTop ==
    (BrowseInFlight = 0 /\ view.list.kind \notin {"none", "loading", "failed"}) =>
        IF state.browseStack = <<>> THEN view.list.kind = "categories"
        ELSE IF Top.type = "category"
             THEN view.list.kind \in {"collections", "empty"} /\ view.list.s = Top.name
             ELSE view.list.kind = "tracks" /\ view.list.id = Top.id

\* C19: when an upvote request succeeds, the flag that is flipped is the one
\* of the track whose id was sent: a track that has meanwhile become the
\* current one keeps its flag and its heart
UpvoteFlipsSentTrack ==
    [][ev' = "upvoteOk" =>
          \E r \in Pending("upvote") :
              /\ requests' = requests (-) One(r)
              /\ state.track.id # r.id =>
                     /\ state'.track.upvoted = state.track.upvoted
                     /\ view'.heart = view.heart
      ]_vars

\* C20: whenever the media element has a stream source, it is the stream of
\* state.track, after any interleaving of loadCurrent answers and retries,
\* next/prev answers and track selections
SourceIsCurrentTrack == audio.src # 0 => audio.src = state.track.id

====
